---- MODULE Spec2Model ----
(***************************************************************************)
(* A state-machine model of milabench/instruments.py: the instruments      *)
(* that milabench attaches to a benchmark through a voir overseer `ov`.    *)
(*                                                                         *)
(* Each instrument is a generator: it suspends on `yield ov.phases.<p>`    *)
(* and is resumed when phase <p> completes.  Between suspensions it builds *)
(* pipelines on `ov.given`; the callbacks of those pipelines run           *)
(* synchronously on the thread that calls `ov.give`.                       *)
(*                                                                         *)
(* Times are integers (nanoseconds, as time.time_ns()); a rate n / t is    *)
(* kept as the exact fraction <<numerator, denominator>>.                  *)
(***************************************************************************)
EXTENDS Integers, Sequences, FiniteSets, TLC

(***************************************************************************)
(* Bounds of the model                                                     *)
(***************************************************************************)
MaxStop == 3        \* largest value of --stop explored
MaxEvents == 5      \* train_rate events given in one run
MaxReent == 1       \* train_rate events that one stop signal causes re-entrantly
MaxPolls == 3       \* polls of the GPU monitor in one run
MaxHostGives == 2   \* events the host script gives to the dashboard in one run
MaxSpans == 3       \* compute_start spans of the host script in one run
MaxFlops == 1       \* largest flops count a profiler reports
MaxSteps == 3       \* step events of the host script in one run
MaxDt == 1          \* largest time between two step events, in ns
MaxBatch == 1       \* largest len(batch)
MaxSync == 1        \* largest duration of torch.cuda.synchronize(), in ns
MaxFlushes == 2     \* flushes of buffer_with_time in one run
MaxLoss == 2        \* largest loss value
MaxLosses == 3      \* loss events of the host script in one run
MaxRates == 2       \* loading_rate and compute_rate events in one run
MaxLen == 3         \* longest batch, and longest list or tuple of a span's results
MaxElapsed == 2     \* longest span, in ns
MaxRateSpans == 2   \* spans of one kind the host script goes through in one run
MaxGatesOn == 2     \* gates that are on together in a run over the gates
MaxGateEvents == 1  \* host events and monitor polls in a run over the gates

(***************************************************************************)
(* Program constants                                                       *)
(***************************************************************************)
NsPerSec == 1000000000


\* average(scan=5) (lines 190 and 216)
ScanWindow == 5

(***************************************************************************)
(* Phase lifecycle                                                         *)
(***************************************************************************)
PhaseOrder == <<"ParseArgs", "Init", "LoadScript", "RunScript", "Finalize", "Done">>

PhaseIndex(p) == CHOOSE i \in 1..Len(PhaseOrder) : PhaseOrder[i] = p

NextPhase(p) == PhaseOrder[PhaseIndex(p) + 1]

VARIABLES
    phase,          \* the phase in progress
    \* ---- stop (lines 92-111)
    stopOpt,        \* ov.options.stop
    stopPc,         \* where the stop generator is suspended
    called,         \* the `called` flag of stop
    stopSignals,    \* number of calls of ov.stop
    mapIdx,         \* the index counter of steps.map_indexed
    skipRemaining,  \* what steps.skip(stop) still has to skip
    progress,       \* the progress events given, in order
    nGiven,         \* train_rate events given by the host so far
    nObserved,      \* train_rate events given after `steps` was subscribed
    atStop,         \* progress events given when ov.stop was last called
    \* ---- profile_gpu and GPUMonitor (lines 223-247)
    gpuPc,          \* where the profile_gpu generator is suspended ("off": gate not set)
    monPc,          \* where the monitor thread is in GPUMonitor.run
    monStopped,     \* GPUMonitor.stopped
    monStarts,      \* number of calls of monitor.start()
    stopReturned,   \* monitor.stop() has been called and has returned
    polls,          \* calls of GPUtil.getGPUs() so far
    pollFailures,   \* calls of GPUtil.getGPUs() that raised
    gpuPublished,   \* gpudata events given
    gpuAfterStop,   \* gpudata events given after monitor.stop() returned
    \* ---- dash (lines 26-89)
    dashPc,         \* where the dash generator is suspended ("off": gate not set)
    rows,           \* the keys of the `rows` table of dash
    inUpdate,       \* the threads that are executing update_with
    rowWriters,     \* the threads that have written `rows`
    hostPc,         \* the host thread: "idle", or "update" inside update_with
    hostKey,        \* the key of the event the host thread is handling
    hostGives,      \* events the host script has given
    \* ---- profile (lines 334-360)
    profileOpt,     \* ov.options.profile
    profPc,         \* where the profile generator is ("absent": not installed)
    fatal,          \* an exception has left an instrument and ended the process
    profSubscribed, \* the wmap("compute_start", profile_method) pipeline exists
    profilerCalls,  \* number of calls of profile_method
    profilerOpen,   \* profile_method is suspended at its yield, inside a span
    profileResults, \* the profiler_stats given, accumulated (line 354)
    spansBegun,     \* compute_start spans the host script has entered
    inSpan,         \* the host script is inside a compute_start span
    \* ---- train_rate (lines 114-152)
    trPc,           \* where the train_rate generator is ("off": gate not set)
    clock,          \* time.time_ns()
    sync,           \* the `sync` hook of train_rate is set (not None)
    cudaResolved,   \* first_or_default on use_cuda has fired
    prevSample,     \* the element pairwise() holds back: <<>> or <<sample>>
    buffer,         \* the pairs buffer_with_time has not flushed yet
    trSteps,        \* step events given
    trFlushes,      \* flushes of buffer_with_time
    lastWindow,     \* the list handed to the subscriber by the last flush
    lastSyncSet,    \* whether the hook was set at the last flush
    lastSyncCost,   \* how long the hook took (or would have) at the last flush
    lastRate,       \* what the last flush gave: <<>> or <<train_rate>>
    firstTime,      \* the time of the first sample
    totalSize,      \* the batch sizes of all samples, summed
    flushedCount,   \* the pairs in all flushed lists
    flushedSize,    \* the first elements' batch sizes in all flushed lists, summed
    flushedTime,    \* the pairs' time differences in all flushed lists, summed
    \* ---- loading_rate and compute_rate (lines 155-220)
    lrPc,           \* where loading_rate is ("off": never started)
    loaderGiven,    \* the shape of the loader the host gave, or "none"
    lrLogged,       \* "Error: cannot instrument loader" was printed
    lrSpans,        \* calls of the loader's iteration function so far
    lrBatches,      \* probed spans whose results held a batch
    lrEntered,      \* the values that entered loading_rate's average, in order
    lrEvents,       \* loading_rate events given
    lrLast,         \* the last loading_rate event given: <<>> or <<event>>
    crPc,           \* where compute_rate is ("off": never started)
    crSpans,        \* compute_start spans so far
    crBatches,      \* spans seen by compute_rate whose results held a batch
    crEntered,      \* the values that entered compute_rate's average, in order
    crEvents,       \* compute_rate events given
    crLast,         \* the last compute_rate event given: <<>> or <<event>>
    \* ---- the two _timing helpers side by side (lines 159-170, 201-212)
    timingIn,       \* the results and the elapsed time handed to both
    timingOut,      \* <<>>, or what the two helpers returned
    \* ---- the gates and display (lines 11-14)
    gates,          \* the instruments whose flag is on the command line
    dispPc,         \* where display is ("off": never started)
    \* ---- verify (lines 250-281)
    verPc,          \* where the verify generator is ("off": gate not set)
    streamDone,     \* ov.given has completed (the bus is torn down)
    losses,         \* the loss values given while verify was subscribed
    firstLoss,      \* what losses.first() has emitted: <<>> or <<value>>
    lastLoss,       \* the value losses.last() holds: <<>> or <<value>>
    pairPrev,       \* the element pairwise() holds back: <<>> or <<value>>
    seen,           \* per field: is_empty() has seen an event with the field
    sent,           \* what went to ov.send, in order, with the phase it went in
    nRates,         \* loading_rate and compute_rate events given
    fieldsGiven     \* the fields among Fields that some given event carried

stopVars == <<stopOpt, stopPc, called, stopSignals, mapIdx, skipRemaining,
              progress, nGiven, nObserved, atStop>>

monVars == <<gpuPc, monPc, monStopped, monStarts, stopReturned, polls,
             pollFailures, gpuPublished, gpuAfterStop>>

dashVars == <<dashPc, rows, inUpdate, rowWriters, hostPc, hostKey, hostGives>>

profVars == <<profileOpt, profPc, fatal, profSubscribed, profilerCalls,
              profilerOpen, profileResults, spansBegun, inSpan>>

trVars == <<trPc, clock, sync, cudaResolved, prevSample, buffer, trSteps,
            trFlushes, lastWindow, lastSyncSet, lastSyncCost, lastRate,
            firstTime, totalSize, flushedCount, flushedSize, flushedTime>>

\* The sums kept over the whole run of train_rate.
trTotals == <<firstTime, totalSize, flushedCount, flushedSize, flushedTime>>

verVars == <<verPc, streamDone, losses, firstLoss, lastLoss, pairPrev, seen,
             sent, nRates, fieldsGiven>>

rateVars == <<lrPc, loaderGiven, lrLogged, lrSpans, lrBatches, lrEntered,
              lrEvents, lrLast, crPc, crSpans, crBatches, crEntered, crEvents,
              crLast>>

timingVars == <<timingIn, timingOut>>

gateVars == <<gates, dispPc>>

\* The state of the span rates, of the comparison of their helpers and of
\* the gates.
laterVars == <<rateVars, timingVars, gateVars>>

vars == <<phase, stopVars, monVars, dashVars, profVars, trVars, verVars,
          laterVars>>

\* Everything but the state of stop and verify; but the monitor and dash;
\* but profile; but train_rate; but verify.
exceptStop == <<monVars, dashVars, profVars, trVars, laterVars>>

exceptMonDash == <<stopVars, profVars, trVars, verVars, laterVars>>

exceptProfile == <<stopVars, monVars, dashVars, trVars, verVars, laterVars>>

exceptTrainRate == <<stopVars, monVars, dashVars, profVars, verVars,
                     laterVars>>

exceptVerify == <<stopVars, monVars, dashVars, profVars, trVars, laterVars>>

exceptRates == <<stopVars, monVars, dashVars, profVars, trVars, verVars,
                 timingVars, gateVars>>

exceptTiming == <<stopVars, monVars, dashVars, profVars, trVars, verVars,
                  rateVars, gateVars>>

(***************************************************************************)
(* verify                                                                  *)
(***************************************************************************)
Fields == <<"train_rate", "loading_rate", "compute_rate">>

FieldSet == {Fields[i] : i \in 1..Len(Fields)}

\* as_(f"verify.has_{field}")
HasName(field) ==
    CASE field = "train_rate" -> "verify.has_train_rate"
      [] field = "loading_rate" -> "verify.has_loading_rate"
      [] field = "compute_rate" -> "verify.has_compute_rate"

VerifyInit(gate) ==
    /\ verPc = IF gate THEN "parse_args" ELSE "off"
    /\ streamDone = FALSE
    /\ losses = <<>>
    /\ firstLoss = <<>>
    /\ lastLoss = <<>>
    /\ pairPrev = <<>>
    /\ seen = [f \in FieldSet |-> FALSE]
    /\ sent = <<>>
    /\ nRates = 0
    /\ fieldsGiven = {}

\* The pipelines of lines 258-279 exist: verify is past its first yield.
VerifySubscribed == verPc \in {"finalize", "finished"}

\* verify is being resumed after ParseArgs: it requires dash, train_rate,
\* loading_rate and compute_rate (lines 253-256).
VerifyRequires(done) == verPc = "parse_args" /\ done = "ParseArgs"

\* verify resumed: after ParseArgs it builds its pipelines; after Finalize
\* it ends.
ResumeVerify(done) ==
    IF verPc = "parse_args" /\ done = "ParseArgs"
    THEN /\ verPc' = "finalize"
         /\ UNCHANGED <<streamDone, losses, firstLoss, lastLoss, pairPrev, seen,
                        sent, nRates, fieldsGiven>>
    ELSE IF verPc = "finalize" /\ done = "Finalize"
    THEN /\ verPc' = "finished"
         /\ UNCHANGED <<streamDone, losses, firstLoss, lastLoss, pairPrev, seen,
                        sent, nRates, fieldsGiven>>
    ELSE UNCHANGED verVars

\* One value that goes to ov.send, with the phase in progress.
Result(name, value) == [name |-> name, value |-> value, phase |-> phase]

\* The loss counts as decreasing when it is merely not larger.
LossNotLarger(fl, ll) == ll <= fl

\* starmap(lambda fl, ll: ll < fl) (line 264)
LossDecreases(fl, ll) == ll < fl

\* map(lambda x: x < 1) (line 269)
BelowThreshold(x) == x < 1

\* last() forwards every value as it comes.
LastEmitsAlways(completed) == TRUE

\* losses.last() emits the value it holds only when the stream completes
\* (line 263).
LastEmits(completed) == completed

\* What the two loss pipelines send when last_loss emits `value`, the
\* pairwise() over (first_loss | last_loss) holding `prev` (lines 264-269).
LossResults(prev, value) ==
    (IF prev # <<>>
     THEN <<Result("verify.loss_decreases", LossDecreases(prev[1], value))>>
     ELSE <<>>)
    \o <<Result("verify.loss_below_threshold", BelowThreshold(value))>>

\* An event with a "loss" key reaches losses.first() and losses.last().
ObserveLoss(value) ==
    /\ losses' = Append(losses, value)
    /\ firstLoss' = IF firstLoss = <<>> THEN <<value>> ELSE firstLoss
    /\ lastLoss' = <<value>>
    /\ LET prev == IF firstLoss = <<>> THEN <<value>> ELSE pairPrev
       IN  IF LastEmits(FALSE)
           THEN /\ sent' = sent \o LossResults(prev, value)
                /\ pairPrev' = <<value>>
           ELSE /\ sent' = sent
                /\ pairPrev' = prev

\* The result of is_empty() is sent as it is.
HasValueNotNegated(empty) == empty

\* map(lambda x: not x) (line 276)
HasValue(empty) == ~empty

\* An event with the key `field` reaches getitem(field).is_empty(): the
\* first one makes is_empty() emit False, sent as has_<field> = True
\* (lines 272-279).
ObserveField(field) ==
    /\ fieldsGiven' = fieldsGiven \cup {field}
    /\ IF VerifySubscribed /\ ~seen[field]
       THEN /\ seen' = [seen EXCEPT ![field] = TRUE]
            /\ sent' = Append(sent, Result(HasName(field), HasValue(FALSE)))
       ELSE UNCHANGED <<seen, sent>>

RECURSIVE EmptyResults(_)
\* What is_empty() sends for the fields i.. when the stream completes:
\* has_<field> = False for every field that no event carried.
EmptyResults(i) ==
    IF i > Len(Fields) THEN <<>>
    ELSE (IF seen[Fields[i]] THEN <<>>
          ELSE <<Result(HasName(Fields[i]), HasValue(TRUE))>>) \o EmptyResults(i + 1)

\* The host script gives a loss value.
GiveLoss ==
    /\ phase = "RunScript"
    /\ ~streamDone
    /\ VerifySubscribed
    /\ Len(losses) < MaxLosses
    /\ \E value \in 0..MaxLoss : ObserveLoss(value)
    /\ UNCHANGED <<phase, exceptVerify, verPc, streamDone, seen, nRates,
                   fieldsGiven>>

\* A loading_rate or compute_rate event is given.
GiveRate ==
    /\ phase \in {"RunScript", "Finalize"}
    /\ ~streamDone
    /\ nRates < MaxRates
    /\ nRates' = nRates + 1
    /\ \E field \in {"loading_rate", "compute_rate"} : ObserveField(field)
    /\ UNCHANGED <<phase, exceptVerify, verPc, streamDone, losses, firstLoss,
                   lastLoss, pairPrev>>

\* The bus is torn down during Finalize: ov.given completes, last() emits
\* the value it holds and is_empty() emits for the fields never seen.
Teardown ==
    /\ phase = "Finalize"
    /\ ~streamDone
    /\ streamDone' = TRUE
    /\ IF VerifySubscribed
       THEN sent' = sent
                    \o (IF lastLoss # <<>> /\ ~LastEmits(FALSE)
                        THEN LossResults(pairPrev, lastLoss[1])
                        ELSE <<>>)
                    \o EmptyResults(1)
       ELSE sent' = sent
    /\ UNCHANGED <<phase, exceptVerify, verPc, losses, firstLoss, lastLoss,
                   pairPrev, seen, nRates, fieldsGiven>>

(***************************************************************************)
(* stop                                                                    *)
(***************************************************************************)
\* The closure state of stop that its callbacks read and write.
StopState == [called |-> called, stopSignals |-> stopSignals, mapIdx |-> mapIdx,
              skipRemaining |-> skipRemaining, progress |-> progress,
              nObserved |-> nObserved, atStop |-> atStop]

RECURSIVE DeliverTrainRate(_, _)

\* ov.stop(value): the stop signal; it makes the host give `reent` further
\* train_rate events before it returns (comment at lines 97-98).
OvStop(s, reent) ==
    LET s1 == [s EXCEPT !.stopSignals = @ + 1, !.atStop = Len(s.progress)]
    IN  IF reent > 0 THEN DeliverTrainRate(s1, reent - 1) ELSE s1

\* _stop without its guard: the signal goes out on every call.
StopCallbackUnguarded(s, reent) == OvStop([s EXCEPT !.called = TRUE], reent)

\* _stop(value)
StopCallback(s, reent) ==
    IF ~s.called THEN OvStop([s EXCEPT !.called = TRUE], reent) ELSE s

\* steps.map_indexed(lambda _, idx: {...}).give()
GiveProgress(s) ==
    [s EXCEPT !.progress = Append(@, [progress |-> s.mapIdx, total |-> stopOpt,
                                      descr |-> "train"]),
              !.mapIdx = @ + 1]

\* steps.skip(stop) lets the event through one event too early.
SkipPassesEarly(remaining) == remaining <= 1

\* steps.skip(stop): an event passes once `stop` events have been skipped.
SkipPasses(remaining) == remaining <= 0

\* The event reaches skip(stop) >> _stop before the progress pipeline.
DeliverTrainRateStopFirst(s, reent) ==
    LET s1 == [s EXCEPT !.nObserved = @ + 1]
    IN  IF SkipPasses(s1.skipRemaining)
        THEN GiveProgress(StopCallback(s1, reent))
        ELSE GiveProgress([s1 EXCEPT !.skipRemaining = @ - 1])

\* One train_rate event reaches the two subscriptions of `steps`, in the
\* order they were made: the progress pipeline, then skip(stop) >> _stop.
DeliverTrainRate(s, reent) ==
    LET s1 == GiveProgress([s EXCEPT !.nObserved = @ + 1])
    IN  IF SkipPasses(s1.skipRemaining)
        THEN StopCallback(s1, reent)
        ELSE [s1 EXCEPT !.skipRemaining = @ - 1]

StopInit(opts) ==
    /\ stopOpt \in opts
    /\ stopPc = "load_script"
    /\ called = FALSE
    /\ stopSignals = 0
    /\ mapIdx = 0
    /\ skipRemaining = 0
    /\ progress = <<>>
    /\ nGiven = 0
    /\ nObserved = 0
    /\ atStop = 0

\* The test is dropped: the pipelines are built whatever the parameter.
StopActiveAlways(n) == TRUE

\* `if stop:` (line 106)
StopActive(n) == n # 0

\* stop resumed when LoadScript completes (lines 105-111).
ResumeStop(done) ==
    IF stopPc = "load_script" /\ done = "LoadScript"
    THEN /\ stopPc' = IF StopActive(stopOpt) THEN "subscribed" ELSE "noop"
         /\ skipRemaining' = IF StopActive(stopOpt) THEN stopOpt ELSE skipRemaining
         /\ UNCHANGED <<stopOpt, called, stopSignals, mapIdx, progress, nGiven,
                        nObserved, atStop>>
    ELSE UNCHANGED stopVars

\* A train_rate event is given: it reaches the pipelines of stop and the
\* has_train_rate pipeline of verify.
GiveTrainRate ==
    /\ phase \in {"RunScript", "Finalize"}
    /\ ~streamDone
    /\ nGiven < MaxEvents
    /\ \E reent \in 0..MaxReent :
         LET s == IF stopPc = "subscribed"
                  THEN DeliverTrainRate(StopState, reent)
                  ELSE StopState
         IN  /\ called' = s.called
             /\ stopSignals' = s.stopSignals
             /\ mapIdx' = s.mapIdx
             /\ skipRemaining' = s.skipRemaining
             /\ progress' = s.progress
             /\ nObserved' = s.nObserved
             /\ atStop' = s.atStop
             /\ nGiven' = nGiven + 1
    /\ ObserveField("train_rate")
    /\ UNCHANGED <<phase, stopOpt, stopPc, exceptStop, verPc, streamDone, losses,
                   firstLoss, lastLoss, pairPrev, nRates>>

(***************************************************************************)
(* dash: the table of current values                                       *)
(***************************************************************************)
Threads == {"host", "monitor"}

HostKeys == {"loss", "train_rate"}

DashInit(gate) ==
    /\ dashPc = IF gate THEN "init" ELSE "off"
    /\ rows = {}
    /\ inUpdate = {}
    /\ rowWriters = {}
    /\ hostPc = "idle"
    /\ hostKey = "none"
    /\ hostGives = 0

\* gv.where("!silent").subscribe(update_with) is in force (lines 85-89).
DashSubscribed == dashPc = "finalize"

\* dash resumed: verify may require it (line 253); after Init it subscribes update_with and opens the Live
\* display; after Finalize the `with Live` block ends.
ResumeDash(done) ==
    IF dashPc = "off" /\ VerifyRequires(done)
    THEN /\ dashPc' = "init"
         /\ UNCHANGED <<rows, inUpdate, rowWriters, hostPc, hostKey, hostGives>>
    ELSE IF dashPc = "init" /\ done = "Init"
    THEN /\ dashPc' = "finalize"
         /\ UNCHANGED <<rows, inUpdate, rowWriters, hostPc, hostKey, hostGives>>
    ELSE IF dashPc = "finalize" /\ done = "Finalize"
    THEN /\ dashPc' = "closed"
         /\ UNCHANGED <<rows, inUpdate, rowWriters, hostPc, hostKey, hostGives>>
    ELSE UNCHANGED dashVars

\* update_with writes rows[k] (lines 73-83); it runs on the thread that gave
\* the event, and nothing makes it atomic.
UpdateWithWrite(thread, k) ==
    /\ rows' = rows \cup {k}
    /\ rowWriters' = rowWriters \cup {thread}
    /\ inUpdate' = inUpdate \ {thread}

\* The host script gives an event; with dash subscribed the host thread
\* enters update_with.
HostGive ==
    /\ phase = "RunScript"
    /\ hostPc = "idle"
    /\ hostGives < MaxHostGives
    /\ hostGives' = hostGives + 1
    /\ \E k \in HostKeys :
         IF DashSubscribed
         THEN /\ hostPc' = "update"
              /\ hostKey' = k
              /\ inUpdate' = inUpdate \cup {"host"}
         ELSE UNCHANGED <<hostPc, hostKey, inUpdate>>
    /\ UNCHANGED <<phase, exceptMonDash, monVars, dashPc, rows, rowWriters>>

\* The host thread completes update_with.
HostUpdateWith ==
    /\ hostPc = "update"
    /\ UpdateWithWrite("host", hostKey)
    /\ hostPc' = "idle"
    /\ hostKey' = "none"
    /\ UNCHANGED <<phase, exceptMonDash, monVars, dashPc, hostGives>>

(***************************************************************************)
(* profile_gpu and the GPUMonitor thread                                   *)
(***************************************************************************)
MonitorInit(gate) ==
    /\ gpuPc = IF gate THEN "load_script" ELSE "off"
    /\ monPc = "unstarted"
    /\ monStopped = FALSE
    /\ monStarts = 0
    /\ stopReturned = FALSE
    /\ polls = 0
    /\ pollFailures = 0
    /\ gpuPublished = 0
    /\ gpuAfterStop = 0

\* stop() leaves the flag as it was.
StopFlagKept(stopped) == stopped

\* GPUMonitor.stop: self.stopped = True (line 238)
StopFlag(stopped) == TRUE

\* profile_gpu resumed: after LoadScript it creates and starts the monitor
\* (lines 244-245); after RunScript it calls monitor.stop() (line 247), which
\* sets the flag and returns (lines 237-238).
ResumeProfileGpu(done) ==
    IF gpuPc = "load_script" /\ done = "LoadScript"
    THEN /\ gpuPc' = "run_script"
         /\ monPc' = "test"
         /\ monStarts' = monStarts + 1
         /\ UNCHANGED <<monStopped, stopReturned, polls, pollFailures,
                        gpuPublished, gpuAfterStop>>
    ELSE IF gpuPc = "run_script" /\ done = "RunScript"
    THEN /\ gpuPc' = "finished"
         /\ monStopped' = StopFlag(monStopped)
         /\ stopReturned' = TRUE
         /\ UNCHANGED <<monPc, monStarts, polls, pollFailures, gpuPublished,
                        gpuAfterStop>>
    ELSE UNCHANGED monVars

\* `while not self.stopped` (line 233).
MonitorTest ==
    /\ monPc = "test"
    /\ monPc' = IF monStopped THEN "exited" ELSE "poll"
    /\ UNCHANGED <<phase, exceptMonDash, dashVars, gpuPc, monStopped, monStarts,
                   stopReturned, polls, pollFailures, gpuPublished, gpuAfterStop>>

\* self.ov.give(gpudata=GPUtil.getGPUs()) (line 234).  A poll that raises
\* leaves run() by the exception: nothing in run() catches it.  The bound
\* on the polls applies until stop() is called; after it the loop runs its
\* body at most once more.
MonitorPoll ==
    /\ monPc = "poll"
    /\ polls < MaxPolls \/ monStopped
    /\ polls' = polls + 1
    /\ \E ok \in BOOLEAN :
         IF ok
         THEN /\ gpuPublished' = gpuPublished + 1
              /\ gpuAfterStop' = gpuAfterStop + (IF stopReturned THEN 1 ELSE 0)
              /\ pollFailures' = pollFailures
              /\ IF DashSubscribed
                 THEN /\ monPc' = "update"
                      /\ inUpdate' = inUpdate \cup {"monitor"}
                 ELSE /\ monPc' = "sleep"
                      /\ inUpdate' = inUpdate
         ELSE /\ pollFailures' = pollFailures + 1
              /\ monPc' = "crashed"
              /\ UNCHANGED <<gpuPublished, gpuAfterStop, inUpdate>>
    /\ UNCHANGED <<phase, exceptMonDash, gpuPc, monStopped, monStarts, stopReturned,
                   dashPc, rows, rowWriters, hostPc, hostKey, hostGives>>

\* The monitor thread completes update_with for its gpudata event.
MonitorUpdateWith ==
    /\ monPc = "update"
    /\ UpdateWithWrite("monitor", "gpudata")
    /\ monPc' = "sleep"
    /\ UNCHANGED <<phase, exceptMonDash, gpuPc, monStopped, monStarts, stopReturned,
                   polls, pollFailures, gpuPublished, gpuAfterStop,
                   dashPc, hostPc, hostKey, hostGives>>

\* time.sleep(self.delay) returns (line 235).
MonitorSleep ==
    /\ monPc = "sleep"
    /\ monPc' = "test"
    /\ UNCHANGED <<phase, exceptMonDash, dashVars, gpuPc, monStopped, monStarts,
                   stopReturned, polls, pollFailures, gpuPublished, gpuAfterStop>>

(***************************************************************************)
(* profile                                                                 *)
(***************************************************************************)
ProfileNames == {"", "torch", "deepspeed", "unknown"}

ProfileInit(installed, names) ==
    /\ profileOpt \in names
    /\ profPc = IF installed THEN "new" ELSE "absent"
    /\ fatal = FALSE
    /\ profSubscribed = FALSE
    /\ profilerCalls = 0
    /\ profilerOpen = FALSE
    /\ profileResults = <<>>
    /\ spansBegun = 0
    /\ inSpan = FALSE

\* The choice of profile_method (lines 341-349): "return" when the name is
\* None, the profiler for "torch" and "deepspeed", "raise" for anything else.
\* The option is a str with default "", so it is never None.
ProfileMethod(name) ==
    IF name = "None" THEN "return"
    ELSE IF name = "torch" THEN "_profile_with_torch_profiler"
    ELSE IF name = "deepspeed" THEN "_profile_with_deepspeed"
    ELSE "raise"

\* wmap calls profile_method only for the first span.
WmapCallsOnce(calls) == calls = 0

\* ov.given.wmap("compute_start", profile_method): profile_method is called
\* at the start of every compute_start span (line 352).
WmapCalls(calls) == TRUE

\* profile started once the options are parsed, then resumed after
\* LoadScript (line 352-354) and after RunScript (lines 356-360).
ResumeProfile(done) ==
    IF profPc = "new" /\ done = "ParseArgs"
    THEN /\ profPc' = CASE ProfileMethod(profileOpt) = "return" -> "returned"
                        [] ProfileMethod(profileOpt) = "raise" -> "raised"
                        [] OTHER -> "load_script"
         /\ fatal' = (ProfileMethod(profileOpt) = "raise")
         /\ UNCHANGED <<profileOpt, profSubscribed, profilerCalls, profilerOpen,
                        profileResults, spansBegun, inSpan>>
    ELSE IF profPc = "load_script" /\ done = "LoadScript"
    THEN /\ profPc' = "run_script"
         /\ profSubscribed' = TRUE
         /\ UNCHANGED <<profileOpt, fatal, profilerCalls, profilerOpen,
                        profileResults, spansBegun, inSpan>>
    ELSE IF profPc = "run_script" /\ done = "RunScript"
    THEN /\ profPc' = "finished"
         /\ UNCHANGED <<profileOpt, fatal, profSubscribed, profilerCalls,
                        profilerOpen, profileResults, spansBegun, inSpan>>
    ELSE UNCHANGED profVars

\* The host script enters a compute_start span: wmap calls profile_method,
\* which starts the profiler and suspends at its yield.
ComputeStartEnter ==
    /\ phase = "RunScript"
    /\ ~fatal
    /\ ~inSpan
    /\ spansBegun < MaxSpans
    /\ spansBegun' = spansBegun + 1
    /\ inSpan' = TRUE
    /\ IF profSubscribed /\ WmapCalls(profilerCalls)
       THEN /\ profilerCalls' = profilerCalls + 1
            /\ profilerOpen' = TRUE
       ELSE UNCHANGED <<profilerCalls, profilerOpen>>
    /\ UNCHANGED <<phase, exceptProfile, profileOpt, profPc, fatal,
                   profSubscribed, profileResults>>

\* The host script leaves the span: profile_method resumes, returns its
\* statistics, and they are given as profiler_stats.
ComputeStartExit ==
    /\ inSpan
    /\ inSpan' = FALSE
    /\ IF profilerOpen
       THEN /\ profilerOpen' = FALSE
            /\ \E flops \in 0..MaxFlops :
                 profileResults' = Append(profileResults, flops)
       ELSE UNCHANGED <<profilerOpen, profileResults>>
    /\ UNCHANGED <<phase, exceptProfile, profileOpt, profPc, fatal,
                   profSubscribed, profilerCalls, spansBegun>>

(***************************************************************************)
(* train_rate                                                              *)
(***************************************************************************)
TrainRateInit(gate) ==
    /\ trPc = IF gate THEN "load_script" ELSE "off"
    /\ clock = 0
    /\ sync = FALSE
    /\ cudaResolved = FALSE
    /\ prevSample = <<>>
    /\ buffer = <<>>
    /\ trSteps = 0
    /\ trFlushes = 0
    /\ lastWindow = <<>>
    /\ lastSyncSet = FALSE
    /\ lastSyncCost = 0
    /\ lastRate = <<>>
    /\ firstTime = 0
    /\ totalSize = 0
    /\ flushedCount = 0
    /\ flushedSize = 0
    /\ flushedTime = 0

\* train_rate resumed: verify may require it (line 254); after LoadScript it builds its pipelines (lines 118-152).
ResumeTrainRate(done) ==
    IF trPc = "off" /\ VerifyRequires(done)
    THEN /\ trPc' = "load_script"
         /\ UNCHANGED <<clock, sync, cudaResolved, prevSample, buffer, trSteps,
                        trFlushes, lastWindow, lastSyncSet, lastSyncCost, lastRate,
                        trTotals>>
    ELSE IF trPc = "load_script" /\ done = "LoadScript"
    THEN /\ trPc' = "subscribed"
         /\ UNCHANGED <<clock, sync, cudaResolved, prevSample, buffer, trSteps,
                        trFlushes, lastWindow, lastSyncSet, lastSyncCost, lastRate,
                        trTotals>>
    ELSE UNCHANGED trVars

\* ov.given["?use_cuda"].first_or_default(False) >> setsync: the first
\* use_cuda value sets the hook when it is true (lines 120-127).
GiveUseCuda ==
    /\ phase = "RunScript"
    /\ trPc = "subscribed"
    /\ ~cudaResolved
    /\ cudaResolved' = TRUE
    /\ \E use_cuda \in BOOLEAN : sync' = use_cuda
    /\ UNCHANGED <<phase, exceptTrainRate, trPc, clock, prevSample, buffer,
                   trSteps, trFlushes, lastWindow, lastSyncSet, lastSyncCost,
                   lastRate, trTotals>>

\* The host script gives step and batch: the sample (time, batch_size) goes
\* through pairwise() into the buffer (lines 129-136).
GiveStep ==
    /\ phase = "RunScript"
    /\ trSteps < MaxSteps
    /\ trSteps' = trSteps + 1
    /\ \E dt \in 0..MaxDt, size \in 0..MaxBatch :
         LET sample == [time |-> clock + dt, batch_size |-> size]
         IN  /\ clock' = clock + dt
             /\ IF trPc = "subscribed"
                THEN /\ prevSample' = <<sample>>
                     /\ buffer' = IF prevSample = <<>>
                                  THEN buffer
                                  ELSE Append(buffer, <<prevSample[1], sample>>)
                     /\ firstTime' = IF trSteps = 0 THEN sample.time ELSE firstTime
                     /\ totalSize' = totalSize + size
                ELSE UNCHANGED <<prevSample, buffer, firstTime, totalSize>>
    /\ UNCHANGED <<phase, exceptTrainRate, trPc, sync, cudaResolved, trFlushes,
                   lastWindow, lastSyncSet, lastSyncCost, lastRate, flushedCount,
                   flushedSize, flushedTime>>

RECURSIVE SumTimes(_)
\* sum(e2["time"] - e1["time"] for e1, e2 in elems) (line 147)
SumTimes(elems) ==
    IF elems = <<>> THEN 0
    ELSE (Head(elems)[2].time - Head(elems)[1].time) + SumTimes(Tail(elems))

RECURSIVE SumSecondSizes(_)
\* The sizes of the second elements of the pairs.
SumSecondSizes(elems) ==
    IF elems = <<>> THEN 0
    ELSE Head(elems)[2].batch_size + SumSecondSizes(Tail(elems))

RECURSIVE SumSizes(_)
\* sum(e1["batch_size"] for e1, e2 in elems) (line 148)
SumSizes(elems) ==
    IF elems = <<>> THEN 0
    ELSE Head(elems)[1].batch_size + SumSizes(Tail(elems))

\* t1 - t0 around sync(), when the hook is set (lines 141-145).
SyncTime(syncCost) == IF sync THEN syncCost ELSE 0

\* The subscriber of `times` (lines 139-152): what it gives for one flushed
\* list.  The rate n / (t / 1_000_000_000) is kept as the exact fraction
\* size * perSec / ns.
TrainRateOf(elems, syncCost) ==
    LET t == SyncTime(syncCost) + SumTimes(elems)
        n == SumSizes(elems)
    IN  IF n # 0 /\ t # 0
        THEN <<[size |-> n, ns |-> t, perSec |-> NsPerSec]>>
        ELSE <<>>

\* The buffer is upstream of pairwise(): a flush forgets the held element.
HeldDroppedAtFlush(prev) == <<>>

\* pairwise() is applied before buffer_with_time (lines 134-135): a flush
\* leaves the element pairwise() holds back as it is.
HeldAfterFlush(prev) == prev

\* buffer_with_time(1.0) flushes: the subscriber runs on the buffered list,
\* which may be empty.
Flush ==
    /\ trPc = "subscribed"
    /\ phase \in {"RunScript", "Finalize"}
    /\ trFlushes < MaxFlushes
    /\ trFlushes' = trFlushes + 1
    /\ buffer' = <<>>
    /\ lastWindow' = buffer
    /\ lastSyncSet' = sync
    /\ \E syncCost \in 0..MaxSync :
         /\ lastSyncCost' = syncCost
         /\ clock' = clock + SyncTime(syncCost)
         /\ lastRate' = TrainRateOf(buffer, syncCost)
    /\ prevSample' = HeldAfterFlush(prevSample)
    /\ flushedCount' = flushedCount + Len(buffer)
    /\ flushedSize' = flushedSize + SumSizes(buffer)
    /\ flushedTime' = flushedTime + SumTimes(buffer)
    /\ UNCHANGED <<phase, exceptTrainRate, trPc, sync, cudaResolved, trSteps,
                   firstTime, totalSize>>

(***************************************************************************)
(* loading_rate and compute_rate                                           *)
(***************************************************************************)
\* What a _timing helper returns when the results hold no batch.
None == <<>>

\* The results a span hands to _timing at its exit: without a batch, or
\* with a batch that is a plain batch of `outer` items, or a list or a tuple
\* of `outer` elements whose first element is a batch of `inner` items.
NoBatch == [has |-> FALSE, kind |-> "batch", outer |-> 0, inner |-> 0]

SpanResults ==
    {NoBatch}
    \cup {[has |-> TRUE, kind |-> "batch", outer |-> o, inner |-> 0] :
            o \in 0..MaxLen}
    \cup {[has |-> TRUE, kind |-> k, outer |-> o, inner |-> i] :
            k \in {"list", "tuple"}, o \in 1..MaxLen, i \in 0..MaxLen}

\* len(data) / seconds with seconds = (t1 - t0) / 1000000000, kept as the
\* exact fraction size * perSec / ns.
SpanRate(size, elapsed) == <<[size |-> size, ns |-> elapsed, perSec |-> NsPerSec]>>

\* loading_rate's _timing (lines 159-170): a list or a tuple is replaced by
\* its first element.
LoadingTiming(results, elapsed) ==
    IF results.has
    THEN SpanRate(IF results.kind \in {"list", "tuple"}
                  THEN results.inner ELSE results.outer, elapsed)
    ELSE None

\* compute_rate's _timing (lines 201-212): only a list is replaced by its
\* first element.
ComputeTiming(results, elapsed) ==
    IF results.has
    THEN SpanRate(IF results.kind = "list"
                  THEN results.inner ELSE results.outer, elapsed)
    ELSE None

\* The last n elements of a sequence.
LastN(seq, n) ==
    IF Len(seq) <= n THEN seq ELSE SubSeq(seq, Len(seq) - n + 1, Len(seq))

\* average(scan=5) and the map after it: the event carries the mean of the
\* last five values, kept as the values it is the mean of.
RateEvent(name, entered) ==
    <<[name |-> name, meanOf |-> LastN(entered, ScanWindow), units |-> "items/s"]>>

LoaderShapes == {"generator", "next", "unsupported"}

\* Every loader gets a probe.
InstrumentableAlways(shape) == TRUE

\* The loader can be probed (lines 176-186): its __iter__ is a generator
\* function, or the type of its iterator has a `next`.
Instrumentable(shape) == shape \in {"generator", "next"}

\* filter(lambda xs: xs is not None) (line 189)
LoadingFilter(v) == v # None

LoadingRateInit(gate) ==
    /\ lrPc = IF gate THEN "load_script" ELSE "off"
    /\ loaderGiven = "none"
    /\ lrLogged = FALSE
    /\ lrSpans = 0
    /\ lrBatches = 0
    /\ lrEntered = <<>>
    /\ lrEvents = 0
    /\ lrLast = <<>>

ComputeRateInit(gate) ==
    /\ crPc = IF gate THEN "load_script" ELSE "off"
    /\ crSpans = 0
    /\ crBatches = 0
    /\ crEntered = <<>>
    /\ crEvents = 0
    /\ crLast = <<>>

\* loading_rate resumed: verify may require it (line 255); after LoadScript
\* it subscribes to the loader (lines 172-174).
ResumeLoadingRate(done) ==
    IF lrPc = "off" /\ VerifyRequires(done)
    THEN /\ lrPc' = "load_script"
         /\ UNCHANGED <<loaderGiven, lrLogged, lrSpans, lrBatches, lrEntered,
                        lrEvents, lrLast>>
    ELSE IF lrPc = "load_script" /\ done = "LoadScript"
    THEN /\ lrPc' = "waiting"
         /\ UNCHANGED <<loaderGiven, lrLogged, lrSpans, lrBatches, lrEntered,
                        lrEvents, lrLast>>
    ELSE UNCHANGED <<lrPc, loaderGiven, lrLogged, lrSpans, lrBatches, lrEntered,
                     lrEvents, lrLast>>

\* compute_rate resumed: verify may require it (line 256); after LoadScript
\* it builds its pipeline (lines 214-220).
ResumeComputeRate(done) ==
    IF crPc = "off" /\ VerifyRequires(done)
    THEN /\ crPc' = "load_script"
         /\ UNCHANGED <<crSpans, crBatches, crEntered, crEvents, crLast>>
    ELSE IF crPc = "load_script" /\ done = "LoadScript"
    THEN /\ crPc' = "subscribed"
         /\ UNCHANGED <<crSpans, crBatches, crEntered, crEvents, crLast>>
    ELSE UNCHANGED <<crPc, crSpans, crBatches, crEntered, crEvents, crLast>>

\* The host script gives its loader: the subscriber of lines 174-194 probes
\* it, or prints the error and returns.
GiveLoader ==
    /\ phase = "RunScript"
    /\ loaderGiven = "none"
    /\ \E shape \in LoaderShapes :
         /\ loaderGiven' = shape
         /\ IF lrPc = "waiting"
            THEN IF Instrumentable(shape)
                 THEN lrPc' = "probing" /\ lrLogged' = lrLogged
                 ELSE lrPc' = "inert" /\ lrLogged' = TRUE
            ELSE UNCHANGED <<lrPc, lrLogged>>
    /\ UNCHANGED <<phase, exceptRates, lrSpans, lrBatches, lrEntered, lrEvents,
                   lrLast, crPc, crSpans, crBatches, crEntered, crEvents, crLast>>

\* The host script takes one batch from its loader.  When the loader is
\* probed, _timing runs around the call and what it returns goes through
\* the filter, the average and throttle(1), which lets the first event
\* through and may hold back a later one.
LoaderSpan ==
    /\ phase = "RunScript"
    /\ loaderGiven # "none"
    /\ lrSpans < MaxRateSpans
    /\ lrSpans' = lrSpans + 1
    /\ \E results \in SpanResults, elapsed \in 1..MaxElapsed, pass \in BOOLEAN :
         IF lrPc = "probing"
         THEN LET v == LoadingTiming(results, elapsed)
              IN  /\ lrBatches' = lrBatches + (IF results.has THEN 1 ELSE 0)
                  /\ IF LoadingFilter(v)
                     THEN /\ lrEntered' = Append(lrEntered, v)
                          /\ IF pass \/ lrEvents = 0
                             THEN /\ lrEvents' = lrEvents + 1
                                  /\ lrLast' = RateEvent("loading_rate", lrEntered')
                             ELSE UNCHANGED <<lrEvents, lrLast>>
                     ELSE UNCHANGED <<lrEntered, lrEvents, lrLast>>
         ELSE UNCHANGED <<lrBatches, lrEntered, lrEvents, lrLast>>
    /\ UNCHANGED <<phase, exceptRates, lrPc, loaderGiven, lrLogged, crPc, crSpans,
                   crBatches, crEntered, crEvents, crLast>>

\* The host script goes through one compute_start span as compute_rate
\* sees it: what _timing returns goes to the average as it is, and a None
\* there makes the average raise, which ends the pipeline.
ComputeSpan ==
    /\ phase = "RunScript"
    /\ crSpans < MaxRateSpans
    /\ crSpans' = crSpans + 1
    /\ \E results \in SpanResults, elapsed \in 1..MaxElapsed, pass \in BOOLEAN :
         IF crPc = "subscribed"
         THEN LET v == ComputeTiming(results, elapsed)
              IN  /\ crBatches' = crBatches + (IF results.has THEN 1 ELSE 0)
                  /\ crEntered' = Append(crEntered, v)
                  /\ IF v = None
                     THEN /\ crPc' = "failed"
                          /\ UNCHANGED <<crEvents, crLast>>
                     ELSE /\ crPc' = crPc
                          /\ IF pass \/ crEvents = 0
                             THEN /\ crEvents' = crEvents + 1
                                  /\ crLast' = RateEvent("compute_rate", crEntered')
                             ELSE UNCHANGED <<crEvents, crLast>>
         ELSE UNCHANGED <<crPc, crBatches, crEntered, crEvents, crLast>>
    /\ UNCHANGED <<phase, exceptRates, lrPc, loaderGiven, lrLogged, lrSpans,
                   lrBatches, lrEntered, lrEvents, lrLast>>

(***************************************************************************)
(* The two _timing helpers on the same input                               *)
(***************************************************************************)
TimingInputs ==
    {[results |-> r, elapsed |-> e] : r \in SpanResults, e \in 1..MaxElapsed}

TimingInit(inputs) ==
    /\ timingIn \in inputs
    /\ timingOut = <<>>

\* Both helpers are run on the input.
ApplyTiming ==
    /\ timingOut = <<>>
    /\ timingOut' = <<[loading |-> LoadingTiming(timingIn.results, timingIn.elapsed),
                       compute |-> ComputeTiming(timingIn.results, timingIn.elapsed)]>>
    /\ UNCHANGED <<phase, exceptTiming, timingIn>>

(***************************************************************************)
(* The gates and display                                                   *)
(***************************************************************************)
GatedInstruments == {"display", "dash", "train_rate", "loading_rate",
                     "compute_rate", "profile_gpu", "verify"}

\* The instruments verify requires (lines 253-256).
VerifyRequired == {"dash", "train_rate", "loading_rate", "compute_rate"}

\* Every instrument runs, whatever its flag.
GateIgnored(flag) == TRUE

\* @gated: the instrument runs when its flag is on the command line.
GateOpen(flag) == flag

DisplayInit(gate) == dispPc = IF gate THEN "new" ELSE "off"

\* display starts once the options are parsed (lines 11-14); its body
\* subscribes at once.  Nothing in the source orders it against profile:
\* when profile raises at the same point, display has run before it or
\* does not run at all.
ResumeDisplay(done) ==
    IF dispPc = "new" /\ done = "ParseArgs"
    THEN IF profPc = "new" /\ ProfileMethod(profileOpt) = "raise"
         THEN dispPc' \in {"new", "subscribed"}
         ELSE dispPc' = "subscribed"
    ELSE dispPc' = dispPc

\* The gated instruments as the command line with the flags g leaves them.
GatedInit(g) ==
    /\ gates = g
    /\ DisplayInit(GateOpen("display" \in g))
    /\ DashInit(GateOpen("dash" \in g))
    /\ TrainRateInit(GateOpen("train_rate" \in g))
    /\ LoadingRateInit(GateOpen("loading_rate" \in g))
    /\ ComputeRateInit(GateOpen("compute_rate" \in g))
    /\ MonitorInit(GateOpen("profile_gpu" \in g))
    /\ VerifyInit(GateOpen("verify" \in g))

\* The helpers are not being compared.
TimingIdle == TimingInit({[results |-> NoBatch, elapsed |-> 1]})

\* The phase in progress completes: every instrument waiting on it resumes.
Advance ==
    /\ phase # "Done"
    /\ ~fatal
    /\ phase' = NextPhase(phase)
    /\ ResumeDash(phase)
    /\ ResumeStop(phase)
    /\ ResumeProfileGpu(phase)
    /\ ResumeProfile(phase)
    /\ ResumeTrainRate(phase)
    /\ ResumeVerify(phase)
    /\ ResumeLoadingRate(phase)
    /\ ResumeComputeRate(phase)
    /\ ResumeDisplay(phase)
    /\ UNCHANGED <<timingVars, gates>>

(***************************************************************************)
(* Specifications                                                          *)
(***************************************************************************)
\* The stop instrument alone, for every value of --stop.
InitStop ==
    /\ phase = "ParseArgs"
    /\ StopInit(0..MaxStop)
    /\ ProfileInit(FALSE, {""})
    /\ GatedInit({})
    /\ TimingIdle

NextStop == Advance \/ GiveTrainRate

SpecStop == InitStop /\ [][NextStop]_vars

\* The GPU monitor thread, the host thread and the dashboard, for every
\* setting of the --gpu and --dash gates.
InitMonitor ==
    /\ phase = "ParseArgs"
    /\ StopInit({0})
    /\ ProfileInit(FALSE, {""})
    /\ \E g \in SUBSET {"profile_gpu", "dash"} : GatedInit(g)
    /\ TimingIdle

NextMonitor ==
    \/ Advance
    \/ MonitorTest
    \/ MonitorPoll
    \/ MonitorUpdateWith
    \/ MonitorSleep
    \/ HostGive
    \/ HostUpdateWith

SpecMonitor == InitMonitor /\ [][NextMonitor]_vars

\* The same, with the monitor thread scheduled fairly: a step it can take
\* (the loop test, a poll, the dashboard update, the end of a sleep) is
\* eventually taken.
SpecMonitorFair ==
    /\ SpecMonitor
    /\ WF_vars(MonitorTest)
    /\ WF_vars(MonitorPoll)
    /\ WF_vars(MonitorUpdateWith)
    /\ WF_vars(MonitorSleep)

\* The profile instrument and the compute_start spans of the host script,
\* for every value of --profile.
InitProfile ==
    /\ phase = "ParseArgs"
    /\ StopInit({0})
    /\ ProfileInit(TRUE, ProfileNames)
    /\ \E g \in SUBSET {"display"} : GatedInit(g)
    /\ TimingIdle

NextProfile == Advance \/ ComputeStartEnter \/ ComputeStartExit

SpecProfile == InitProfile /\ [][NextProfile]_vars

\* The train_rate instrument, the step events of the host script and the
\* flushes of the one-second buffer.
InitTrainRate ==
    /\ phase = "ParseArgs"
    /\ StopInit({0})
    /\ ProfileInit(FALSE, {""})
    /\ GatedInit({"train_rate"})
    /\ TimingIdle

NextTrainRate == Advance \/ GiveUseCuda \/ GiveStep \/ Flush

SpecTrainRate == InitTrainRate /\ [][NextTrainRate]_vars

\* The verify instrument, the loss and rate events it watches, and the
\* teardown of the bus.
InitVerify ==
    /\ phase = "ParseArgs"
    /\ StopInit({0})
    /\ ProfileInit(FALSE, {""})
    /\ GatedInit({"verify"})
    /\ TimingIdle

NextVerify == Advance \/ GiveLoss \/ GiveTrainRate \/ GiveRate \/ Teardown

SpecVerify == InitVerify /\ [][NextVerify]_vars

\* loading_rate, the loader the host script gives and the batches it takes
\* from it.
InitLoadingRate ==
    /\ phase = "ParseArgs"
    /\ StopInit({0})
    /\ ProfileInit(FALSE, {""})
    /\ GatedInit({"loading_rate"})
    /\ TimingIdle

NextLoadingRate == Advance \/ GiveLoader \/ LoaderSpan

SpecLoadingRate == InitLoadingRate /\ [][NextLoadingRate]_vars

\* compute_rate and the compute_start spans of the host script.
InitComputeRate ==
    /\ phase = "ParseArgs"
    /\ StopInit({0})
    /\ ProfileInit(FALSE, {""})
    /\ GatedInit({"compute_rate"})
    /\ TimingIdle

NextComputeRate == Advance \/ ComputeSpan

SpecComputeRate == InitComputeRate /\ [][NextComputeRate]_vars

\* The two _timing helpers, run on every results and elapsed time.
InitTiming ==
    /\ phase = "ParseArgs"
    /\ StopInit({0})
    /\ ProfileInit(FALSE, {""})
    /\ GatedInit({})
    /\ TimingInit(TimingInputs)

NextTiming == ApplyTiming

SpecTiming == InitTiming /\ [][NextTiming]_vars

\* The settings of the seven gates, a few on at a time, with the events of the host script and
\* the monitor thread, a few of them in a run.
InitGates ==
    /\ phase = "ParseArgs"
    /\ StopInit({0})
    /\ ProfileInit(FALSE, {""})
    /\ \E g \in SUBSET GatedInstruments :
         Cardinality(g) <= MaxGatesOn /\ GatedInit(g)
    /\ TimingIdle

\* The events counted so far are fewer than the run may have.
GatesBudget ==
    trSteps + trFlushes + polls + hostGives + lrSpans + crSpans < MaxGateEvents

NextGates ==
    \/ Advance
    \/ GatesBudget /\ GiveStep
    \/ GatesBudget /\ Flush
    \/ GatesBudget /\ LoaderSpan
    \/ GatesBudget /\ ComputeSpan
    \/ GatesBudget /\ MonitorPoll
    \/ GatesBudget /\ HostGive
    \/ GiveLoader
    \/ MonitorTest
    \/ MonitorUpdateWith
    \/ MonitorSleep
    \/ HostUpdateWith
    \/ Teardown

SpecGates == InitGates /\ [][NextGates]_vars

(***************************************************************************)
(* Properties                                                              *)
(***************************************************************************)

\* C1: whatever train_rate events are given, and whatever train_rate events
\* the stop signal itself causes while it is being issued, ov.stop is
\* called at most once in the whole run.
StopAtMostOnce == stopSignals <= 1

\* The signal went out and _stop was called again afterwards.
StopAtMostOnceWitness ==
    /\ stopOpt > 0
    /\ stopSignals = 1
    /\ nObserved >= stopOpt + 2

\* C2 as stated: with --stop N > 0 the signal has gone out exactly when N
\* train_rate events have been observed.
StopOnNth ==
    stopPc = "subscribed" => ((stopSignals >= 1) <=> (nObserved >= stopOpt))

\* C2 amended: with --stop N > 0 the signal has gone out exactly when N + 1
\* train_rate events have been observed: skip(N) drops the first N events
\* and _stop runs on the next one.
StopOnNthPlusOne ==
    stopPc = "subscribed" => ((stopSignals >= 1) <=> (nObserved >= stopOpt + 1))

\* --stop 3: the fourth train_rate event has been handled and the signal is out.
StopOnNthPlusOneWitness ==
    /\ stopPc = "subscribed"
    /\ stopOpt = 3
    /\ nObserved = 4
    /\ stopSignals = 1

\* C3: no gpudata event is given after monitor.stop() has returned.
NoPublishAfterStop == gpuAfterStop = 0

\* C4: after a poll has failed, and while the monitor has not been stopped,
\* the monitor thread is still running its loop.
FailedPollKeepsMonitor ==
    (pollFailures > 0 /\ ~monStopped) => monPc \in {"test", "poll", "update", "sleep"}

\* C10: update_with never executes on two threads, and `rows` is written by
\* one thread only over the whole run.
RowsSingleThread ==
    /\ Cardinality(inUpdate) <= 1
    /\ Cardinality(rowWriters) <= 1

\* C5: with --profile at its default "" the profile instrument is inactive:
\* it raises nothing, waits on no phase, subscribes to nothing, never calls
\* a profiler and gives no profiler_stats.
ProfileDefaultInactive ==
    profileOpt = "" =>
        /\ profPc \in {"new", "returned"}
        /\ ~fatal
        /\ ~profSubscribed
        /\ profilerCalls = 0
        /\ profileResults = <<>>

\* C6 as stated: with --profile torch or deepspeed the profiler is called
\* at most once in the process.
ProfilerAtMostOnce ==
    profileOpt \in {"torch", "deepspeed"} => profilerCalls <= 1

\* C6 amended: with --profile torch or deepspeed the profiler is called
\* once for every compute_start span the host script enters.
ProfilerOncePerSpan ==
    profileOpt \in {"torch", "deepspeed"} => profilerCalls = spansBegun

\* Two spans have been profiled.
ProfilerOncePerSpanWitness ==
    /\ profileOpt \in {"torch", "deepspeed"}
    /\ spansBegun >= 2
    /\ profilerCalls >= 2
    /\ Len(profileResults) >= 2

RECURSIVE WindowSize(_, _)
\* The batch_size of the first element of each of the first k pairs of w.
WindowSize(w, k) ==
    IF k = 0 THEN 0 ELSE WindowSize(w, k - 1) + w[k][1].batch_size

RECURSIVE WindowElapsed(_, _)
\* The time differences of the first k pairs of w, in ns.
WindowElapsed(w, k) ==
    IF k = 0 THEN 0 ELSE WindowElapsed(w, k - 1) + (w[k][2].time - w[k][1].time)

\* C7: a flush gives exactly (summed size of the first elements of the
\* window's pairs) / (summed time differences of the pairs, plus the hook's
\* duration when a hook is set, in seconds), and gives nothing when the
\* summed size or the total elapsed time is zero.
TrainRateFormula ==
    trFlushes > 0 =>
        LET size == WindowSize(lastWindow, Len(lastWindow))
            ns == WindowElapsed(lastWindow, Len(lastWindow))
                    + (IF lastSyncSet THEN lastSyncCost ELSE 0)
        IN  IF size = 0 \/ ns = 0
            THEN lastRate = <<>>
            ELSE /\ Len(lastRate) = 1
                 /\ lastRate[1].size * ns = size * lastRate[1].ns
                 /\ lastRate[1].ns > 0
                 /\ lastRate[1].perSec = 1000000000

\* A window of two pairs was flushed with the hook set and taking time, and
\* a rate was given.
TrainRateFormulaWitness ==
    /\ trFlushes > 0
    /\ Len(lastWindow) = 2
    /\ lastSyncSet
    /\ lastSyncCost > 0
    /\ lastRate # <<>>

\* The values sent under `name`.
SentValues(name) == {sent[i].value : i \in {j \in 1..Len(sent) : sent[j].name = name}}

\* C8: once the stream has terminated on a non-empty sequence of loss
\* values, verify.loss_decreases = (last < first) and
\* verify.loss_below_threshold = (last < 1) have been sent.
LossVerdicts ==
    (streamDone /\ VerifySubscribed /\ losses # <<>>) =>
        /\ SentValues("verify.loss_decreases") = {losses[Len(losses)] < losses[1]}
        /\ SentValues("verify.loss_below_threshold") = {losses[Len(losses)] < 1}

\* The stream ended on two equal losses that are not below the threshold.
LossVerdictsWitness ==
    /\ streamDone
    /\ Len(losses) = 2
    /\ losses[1] = losses[2]
    /\ SentValues("verify.loss_decreases") = {FALSE}
    /\ SentValues("verify.loss_below_threshold") = {FALSE}

\* C9 as stated: every verification result is sent during Finalize.
ResultsOnlyInFinalize ==
    \A i \in 1..Len(sent) : sent[i].phase = "Finalize"

\* C9 amended: a verification result sent before Finalize is a
\* verify.has_<field> = True, sent when the first event with the field is
\* given; the loss results and every has_<field> = False are sent during
\* Finalize.
ResultsInFinalizeOrPresence ==
    \A i \in 1..Len(sent) :
        sent[i].phase # "Finalize" =>
            /\ sent[i].name \in {HasName(f) : f \in FieldSet}
            /\ sent[i].value = TRUE

\* has_train_rate = True went out while the script was running, and the loss
\* results and a has_<field> = False went out during Finalize.
ResultsInFinalizeOrPresenceWitness ==
    /\ \E i \in 1..Len(sent) :
         sent[i] = [name |-> "verify.has_train_rate", value |-> TRUE, phase |-> "RunScript"]
    /\ \E i \in 1..Len(sent) :
         sent[i].name = "verify.loss_decreases" /\ sent[i].phase = "Finalize"
    /\ \E i \in 1..Len(sent) :
         sent[i].value = FALSE /\ sent[i].name = "verify.has_loading_rate"

\* C17: with --stop 0 the stop instrument does nothing after LoadScript: it
\* subscribes to no train_rate stream, gives no progress event and never
\* calls ov.stop, whatever train_rate events are given.
StopZeroIsNoop ==
    stopOpt = 0 =>
        /\ stopPc \in {"load_script", "noop"}
        /\ progress = <<>>
        /\ nObserved = 0
        /\ ~called
        /\ stopSignals = 0

\* --stop 0, stop has been resumed and two train_rate events have been given.
StopZeroIsNoopWitness ==
    /\ stopOpt = 0
    /\ stopPc = "noop"
    /\ nGiven >= 2

\* C20: the i-th observed train_rate event (from 0) gives the progress event
\* {progress: i, total: N, descr: "train"}; it is given before _stop runs
\* for the same event, so when ov.stop is called the last progress given
\* equals total, and every progress given up to then is at most total.
ProgressBeforeStop ==
    /\ Len(progress) = nObserved
    /\ \A i \in 1..Len(progress) :
         progress[i] = [progress |-> i - 1, total |-> stopOpt, descr |-> "train"]
    /\ stopSignals >= 1 =>
         /\ atStop \in 1..Len(progress)
         /\ progress[atStop].progress = progress[atStop].total
         /\ \A i \in 1..atStop : progress[i].progress <= progress[i].total

\* --stop 2: the signal went out on the third event, after progress 2 of 2.
ProgressBeforeStopWitness ==
    /\ stopOpt = 2
    /\ stopSignals = 1
    /\ atStop = 3
    /\ Len(progress) >= 3

\* The monitor thread has ended.
MonitorTerminated == monPc \in {"exited", "crashed"}

\* C16: no gpudata is given before profile_gpu is resumed after LoadScript;
\* the monitor is started exactly once, then; stop() is called exactly when
\* profile_gpu is resumed after RunScript; once stop() has been called the
\* monitor thread eventually ends, and after it has ended no gpudata is given.
MonitorLifecycle ==
    /\ [](gpuPublished > 0 => gpuPc \in {"run_script", "finished"})
    /\ [](monStarts = (IF gpuPc \in {"run_script", "finished"} THEN 1 ELSE 0))
    /\ [](stopReturned <=> gpuPc = "finished")
    /\ (stopReturned ~> MonitorTerminated)
    /\ [][MonitorTerminated => gpuPublished' = gpuPublished]_vars

\* The monitor was started, gave samples, was stopped and left its loop.
MonitorLifecycleWitness ==
    /\ monStarts = 1
    /\ gpuPublished >= 2
    /\ stopReturned
    /\ monPc = "exited"

\* The places in `sent` of the results sent under `name`.
SentAt(name) == {i \in 1..Len(sent) : sent[i].name = name}

\* C13: once the stream has terminated, for each field of train_rate,
\* loading_rate, compute_rate exactly one verify.has_<field> has been sent,
\* true if some given event carried the field and false if none did.
PresenceVerdicts ==
    (streamDone /\ VerifySubscribed) =>
        \A f \in FieldSet :
            /\ Cardinality(SentAt(HasName(f))) = 1
            /\ SentValues(HasName(f)) = {f \in fieldsGiven}

\* The stream ended after train_rate events only.
PresenceVerdictsWitness ==
    /\ streamDone
    /\ nGiven >= 2
    /\ nRates = 0
    /\ SentValues("verify.has_train_rate") = {TRUE}
    /\ SentValues("verify.has_loading_rate") = {FALSE}
    /\ SentValues("verify.has_compute_rate") = {FALSE}

\* C19: once every pair has been flushed, over a run of k >= 2 samples the
\* flushed lists hold k - 1 pairs in all, every sample but the last has
\* contributed its batch_size once, and every gap between two samples has
\* been counted once.
PairsFlushedOnce ==
    (buffer = <<>> /\ trSteps >= 2 /\ trPc = "subscribed") =>
        /\ prevSample # <<>>
        /\ flushedCount = trSteps - 1
        /\ flushedSize = totalSize - prevSample[1].batch_size
        /\ flushedTime = prevSample[1].time - firstTime

\* Three samples went out in two flushes, one pair in each.
PairsFlushedOnceWitness ==
    /\ trSteps = 3
    /\ trFlushes = 2
    /\ buffer = <<>>
    /\ Len(lastWindow) = 1
    /\ flushedCount = 2
    /\ flushedTime > 0
    /\ flushedSize > 0

\* C18 as stated: on every results and elapsed time, the _timing of
\* loading_rate and the _timing of compute_rate return the same rate, the
\* length of the first element of a list or tuple, else of the payload,
\* over the elapsed seconds.
TimingsAgree ==
    timingOut # <<>> =>
        /\ timingOut[1].loading = timingOut[1].compute
        /\ timingIn.results.has =>
             timingOut[1].compute =
                 SpanRate(IF timingIn.results.kind \in {"list", "tuple"}
                          THEN timingIn.results.inner
                          ELSE timingIn.results.outer, timingIn.elapsed)

\* C12 as stated: a span without a batch puts no value into the average
\* of loading_rate or of compute_rate, so what has entered an average is
\* one rate for each span that had a batch.
NoBatchEntersNothing ==
    /\ \A i \in 1..Len(lrEntered) : lrEntered[i] # None
    /\ Len(lrEntered) = lrBatches
    /\ \A i \in 1..Len(crEntered) : crEntered[i] # None
    /\ Len(crEntered) = crBatches

\* C14: once loading_rate has been handed a loader it cannot probe, the
\* error is logged, loading_rate holds no probe, nothing has entered its
\* average, it has given no event, and no error has stopped the run.
UnsupportedLoaderInert ==
    (loaderGiven = "unsupported" /\ lrPc # "off") =>
        /\ lrLogged
        /\ lrPc = "inert"
        /\ lrEntered = <<>>
        /\ lrEvents = 0
        /\ lrLast = <<>>
        /\ ~fatal

\* The loader could not be probed, and the host script took its batches
\* from it and ran to its end.
UnsupportedLoaderInertWitness ==
    /\ loaderGiven = "unsupported"
    /\ lrLogged
    /\ lrSpans >= 2
    /\ phase = "Done"

\* C15 as stated: when the unknown --profile value has been raised, profile
\* has registered for no phase and built no pipeline, and no instrument has
\* subscribed or published.
NothingActiveAtRaise ==
    fatal =>
        /\ profPc = "raised"
        /\ ~profSubscribed
        /\ profilerCalls = 0
        /\ profileResults = <<>>
        /\ dispPc # "subscribed"

\* The instrument has not run: no subscription, no pipeline, no thread, no
\* event.
NeverRan(i) ==
    CASE i = "display" -> dispPc = "off"
      [] i = "dash" -> dashPc = "off" /\ rows = {} /\ inUpdate = {}
      [] i = "train_rate" -> trPc = "off" /\ buffer = <<>> /\ lastRate = <<>>
      [] i = "loading_rate" ->
            lrPc = "off" /\ ~lrLogged /\ lrEntered = <<>> /\ lrEvents = 0
      [] i = "compute_rate" -> crPc = "off" /\ crEntered = <<>> /\ crEvents = 0
      [] i = "profile_gpu" ->
            gpuPc = "off" /\ monPc = "unstarted" /\ monStarts = 0 /\ gpuPublished = 0
      [] i = "verify" -> verPc = "off" /\ sent = <<>>

\* C11 as stated: a gated instrument whose gate is off has never run.
GateOffNeverRan == \A i \in GatedInstruments : i \notin gates => NeverRan(i)

\* C11: a gated instrument whose gate is off has never run, unless it is one
\* of those verify requires and the gate of verify is on.
GateOffNotRequiredNeverRan ==
    \A i \in GatedInstruments :
        (i \notin gates /\ ~(i \in VerifyRequired /\ "verify" \in gates)) =>
            NeverRan(i)

\* The run is over with --verify alone: the host gave a step, train_rate
\* was required and ran, display and profile_gpu never did.
GateOffNotRequiredNeverRanWitness ==
    /\ gates = {"verify"}
    /\ phase = "Done"
    /\ trSteps >= 1
    /\ trPc = "subscribed"
    /\ sent # <<>>
    /\ dispPc = "off"
    /\ gpuPc = "off"

====
